---- MODULE Spec2Model ----
(***************************************************************************)
(* Prime-Factorization Trajectory Engine                                   *)
(* (src/misc/prime-box/misc/plottingprime-obj.py).                         *)
(*                                                                         *)
(* main() runs generate_full_path(limit) and then export_to_obj(...).      *)
(* The state is the set of local variables of these functions plus the     *)
(* contents of the two output files.                                       *)
(*                                                                         *)
(* Representation of path points: the code computes                        *)
(*     last*(1 - i/num_steps) + coord*(i/num_steps)                        *)
(* in floating point.  A path point is kept here as the triple of integer  *)
(* numerators over the common denominator num_steps, i.e. the stored       *)
(* triple q stands for the point q/num_steps.  For i = num_steps the code  *)
(* computes last*0.0 + coord*1.0, which is coord exactly, as here.         *)
(***************************************************************************)
EXTENDS Integers, Sequences, FiniteSets, TLC

\* ------------------------------------------------------------------ bounds
\* largest limit given to main()
MaxLimit == 64
\* limits below 2 given to main(): 1, 0, ..., 2 - LowLimits
LowLimits == 3
\* longest tag stream given directly to export_to_obj
MaxStream == 4
\* largest sieve limit of a rank table given to the coordinate step alone
MaxSieve == 8

\* ------------------------------------------------------- program constants
\* interpolation steps per integer
num_steps == 10

TypeOrder == <<"x_axis", "diagonal", "z_axis", "other", "origin">>

Types == {TypeOrder[k] : k \in 1..Len(TypeOrder)}

VARIABLES
    limit,              \* main: limit
    pc,                 \* position in main / generate_full_path / export_to_obj
    primes_list,        \* generate_full_path: primes_list
    prime_to_index,     \* generate_full_path: prime_to_index (dict)
    coordinates,        \* generate_full_path: coordinates (dict)
    full_path,          \* generate_full_path: full_path; export_to_obj: path_points
    number_end_indices, \* generate_full_path: number_end_indices (dict)
    point_types,        \* generate_full_path / export_to_obj: point_types
    n,                  \* loop variable of line 59
    i,                  \* loop variable of line 101
    last_point,         \* line 63
    factors,            \* line 65
    coord,              \* lines 68..94
    point_type,         \* lines 70..95
    mtl,                \* contents of the material file
    obj,                \* contents of the geometry file (sequence of records)
    type_to_indices,    \* export_to_obj: type_to_indices (dict)
    vi,                 \* loop variable of line 198 (0-based)
    gi,                 \* position in type_to_indices.items() of line 207
    script,             \* the script that is run
    boxes,              \* simulate_prime_collision (list variant): boxes
    frontiers,          \* simulate_prime_collision: frontiers
    box_counts,         \* primeboxtheory.py, simulate_prime_collision: box_counts
    frontier_positions, \* triple-1.py, simulate_prime_collision: frontier_positions
    grid,               \* simulate_prime_collision (grid variant): grid
    num,                \* simulate_prime_collision: loop variable num
    col,                \* simulate_prime_collision (grid variant): col
    depth               \* simulate_prime_collision (grid variant): depth

vars == <<limit, pc, primes_list, prime_to_index, coordinates, full_path,
          number_end_indices, point_types, n, i, last_point, factors, coord,
          point_type, mtl, obj, type_to_indices, vi, gi, script, boxes,
          frontiers, box_counts, frontier_positions, grid, num, col, depth>>

genVars == <<primes_list, prime_to_index, coordinates, full_path,
             number_end_indices, point_types, n, i, last_point, factors,
             coord, point_type>>

expVars == <<mtl, obj, type_to_indices, vi, gi>>

simVars == <<boxes, frontiers, box_counts, frontier_positions, grid, num,
             col, depth>>

\* ---------------------------------------------------------------- get_primes

\* a mutant of MarkMultiples: range(i * i + i, n + 1, i)
MarkMultiples_SkipSquare(is_prime, k, m) ==
    [j \in DOMAIN is_prime |->
        IF j >= k * k + k /\ j <= m /\ (j - k * k) % k = 0
        THEN FALSE ELSE is_prime[j]]

\* line 17..18: for multiple in range(i*i, n+1, i): is_prime[multiple] = False
MarkMultiples(is_prime, k, m) ==
    [j \in DOMAIN is_prime |->
        IF j >= k * k /\ j <= m /\ (j - k * k) % k = 0
        THEN FALSE ELSE is_prime[j]]

RECURSIVE SieveLoop(_, _, _, _)
\* lines 14..18: the loop over i = k..m
SieveLoop(k, m, is_prime, primes) ==
    IF k > m THEN primes
    ELSE IF is_prime[k]
         THEN SieveLoop(k + 1, m, MarkMultiples(is_prime, k, m), Append(primes, k))
         ELSE SieveLoop(k + 1, m, is_prime, primes)

\* line 12..13 raise IndexError when the list [True]*(n+1) has no index 1
get_primes_raises(m) == m < 1

\* lines 11..20, for m >= 1
get_primes(m) ==
    SieveLoop(2, m, [j \in 0..m |-> j >= 2], <<>>)

\* ---------------------------------------------------------- get_prime_factors

RECURSIVE InsertDesc(_, _)
InsertDesc(s, v) ==
    IF s = <<>> THEN <<v>>
    ELSE IF v >= Head(s) THEN <<v>> \o s
         ELSE <<Head(s)>> \o InsertDesc(Tail(s), v)

RECURSIVE SortDesc(_)
\* line 34: factors.sort(reverse=True)
SortDesc(s) ==
    IF s = <<>> THEN <<>> ELSE InsertDesc(SortDesc(Tail(s)), Head(s))

RECURSIVE DivideOut(_, _, _)
\* lines 29..31: while d % p == 0: factors.append(p); d //= p
\* returns <<d, factors>>
DivideOut(d, p, fs) ==
    IF d % p = 0 THEN DivideOut(d \div p, p, Append(fs, p)) ELSE <<d, fs>>

RECURSIVE FactorLoop_BreakEarly(_, _, _, _)
\* a mutant of FactorLoop: the test of line 27 is p * p >= d
FactorLoop_BreakEarly(k, primes, d, fs) ==
    IF k > Len(primes) THEN <<d, fs>>
    ELSE IF primes[k] * primes[k] >= d THEN <<d, fs>>
    ELSE LET r == DivideOut(d, primes[k], fs)
         IN  FactorLoop_BreakEarly(k + 1, primes, r[1], r[2])

RECURSIVE FactorLoop(_, _, _, _)
\* lines 26..31: the loop over primes_list from position k; returns <<d, factors>>
FactorLoop(k, primes, d, fs) ==
    IF k > Len(primes) THEN <<d, fs>>
    ELSE IF primes[k] * primes[k] > d THEN <<d, fs>>
    ELSE LET r == DivideOut(d, primes[k], fs)
         IN  FactorLoop(k + 1, primes, r[1], r[2])

\* a mutant of get_prime_factors: the sort of line 34 is lost
get_prime_factors_NoSort(m, primes) ==
    LET r == FactorLoop(1, primes, m, <<>>)
    IN  IF r[1] > 1 THEN Append(r[2], r[1]) ELSE r[2]

\* lines 22..35
get_prime_factors(m, primes) ==
    LET r == FactorLoop(1, primes, m, <<>>)
    IN  SortDesc(IF r[1] > 1 THEN Append(r[2], r[1]) ELSE r[2])

\* ------------------------------------------------- coordinate and point type

\* dict.get(key, default)
DictGet(d, key, default) == IF key \in DOMAIN d THEN d[key] ELSE default

\* a mutant of MakeIndex: 0-based ranks, {prime: i for i, prime in enumerate(...)}
MakeIndex_ZeroBased(primes) ==
    [p \in {primes[k] : k \in 1..Len(primes)} |->
        (CHOOSE k \in 1..Len(primes) : primes[k] = p) - 1]

\* a mutant of MakeIndex: the primes are ranked from the largest down
\* ({prime: len(primes_list) - i ...})
MakeIndex_FromEnd(primes) ==
    [p \in {primes[k] : k \in 1..Len(primes)} |->
        Len(primes) + 1 - (CHOOSE k \in 1..Len(primes) : primes[k] = p)]

\* line 46: {prime: i + 1 for i, prime in enumerate(primes_list)}
MakeIndex(primes) ==
    [p \in {primes[k] : k \in 1..Len(primes)} |->
        CHOOSE k \in 1..Len(primes) : primes[k] = p]

\* the keys looked up with prime_to_index[...] (KeyError when missing)
StrictKeys(m, fs) ==
    IF Len(fs) = 1 THEN {m}
    ELSE IF Len(fs) \in {2, 3} THEN {fs[k] : k \in 1..Len(fs)}
    ELSE {}

\* lines 69..83: a prime_to_index[...] lookup raises KeyError
\* (an empty factor list raises IndexError at line 86)
lookup_raises(m, fs, idx) ==
    fs = <<>> \/ ~(StrictKeys(m, fs) \subseteq DOMAIN idx)

RECURSIVE FoldLoop_Overwrite(_, _, _, _)
\* a mutant of FoldLoop: the axis value is replaced (x = p_idx), not accumulated
FoldLoop_Overwrite(k, fs, idx, c) ==
    IF k >= Len(fs) THEN c
    ELSE LET p_idx == DictGet(idx, fs[k + 1], 1)
         IN  FoldLoop_Overwrite(k + 1, fs, idx,
                 <<IF k % 3 = 0 THEN p_idx ELSE c[1],
                   IF k % 3 = 1 THEN p_idx ELSE c[2],
                   IF k % 3 = 2 THEN p_idx ELSE c[3]>>)

RECURSIVE FoldLoop_Shifted(_, _, _, _)
\* a mutant of FoldLoop: the axis is chosen by (i + 1) % 3
FoldLoop_Shifted(k, fs, idx, c) ==
    IF k >= Len(fs) THEN c
    ELSE LET p_idx == DictGet(idx, fs[k + 1], 1)
         IN  FoldLoop_Shifted(k + 1, fs, idx,
                 <<IF (k + 1) % 3 = 0 THEN c[1] + p_idx ELSE c[1],
                   IF (k + 1) % 3 = 1 THEN c[2] + p_idx ELSE c[2],
                   IF (k + 1) % 3 = 2 THEN c[3] + p_idx ELSE c[3]>>)

RECURSIVE FoldLoop(_, _, _, _)
\* lines 89..93: for i in range(3, len(factors)); k is the 0-based position
FoldLoop(k, fs, idx, c) ==
    IF k >= Len(fs) THEN c
    ELSE LET p_idx == DictGet(idx, fs[k + 1], 1)
         IN  FoldLoop(k + 1, fs, idx,
                 <<IF k % 3 = 0 THEN c[1] + p_idx ELSE c[1],
                   IF k % 3 = 1 THEN c[2] + p_idx ELSE c[2],
                   IF k % 3 = 2 THEN c[3] + p_idx ELSE c[3]>>)

\* a mutant of Coordinate: the three-factor branch copies the two-factor one (z = 0)
Coordinate_FlatCube(m, fs, idx) ==
    IF Len(fs) = 1 THEN <<idx[m], 0, 0>>
    ELSE IF Len(fs) \in {2, 3} THEN <<idx[fs[1]], idx[fs[2]], 0>>
    ELSE FoldLoop(3, fs, idx,
            <<DictGet(idx, fs[1], 0), DictGet(idx, fs[2], 0), DictGet(idx, fs[3], 0)>>)

\* lines 68..94: the coordinate of m from its descending factor list
\* (for an empty list the else branch raises IndexError; error handled by caller)
Coordinate(m, fs, idx) ==
    IF Len(fs) = 1 THEN <<idx[m], 0, 0>>
    ELSE IF Len(fs) = 2 THEN <<idx[fs[1]], idx[fs[2]], 0>>
    ELSE IF Len(fs) = 3 THEN <<idx[fs[1]], idx[fs[2]], idx[fs[3]]>>
    ELSE FoldLoop(3, fs, idx,
            <<DictGet(idx, fs[1], 0), DictGet(idx, fs[2], 0), DictGet(idx, fs[3], 0)>>)

\* a mutant of PointType: the perfect-square test of line 72 is lost
PointType_NoSquare(fs) ==
    IF Len(fs) = 1 THEN "x_axis"
    ELSE IF Len(fs) = 2 THEN "other"
    ELSE IF Len(fs) = 3 THEN (IF fs[1] = fs[2] /\ fs[2] = fs[3] THEN "z_axis" ELSE "other")
    ELSE "other"

\* a mutant of PointType: the perfect-cube test of line 79 is lost
PointType_AnyThree(fs) ==
    IF Len(fs) = 1 THEN "x_axis"
    ELSE IF Len(fs) = 2 THEN (IF fs[1] = fs[2] THEN "diagonal" ELSE "other")
    ELSE IF Len(fs) = 3 THEN "z_axis"
    ELSE "other"

\* lines 68..95: the point type of the boundary point
PointType(fs) ==
    IF Len(fs) = 1 THEN "x_axis"
    ELSE IF Len(fs) = 2 THEN (IF fs[1] = fs[2] THEN "diagonal" ELSE "other")
    ELSE IF Len(fs) = 3 THEN (IF fs[1] = fs[2] /\ fs[2] = fs[3] THEN "z_axis" ELSE "other")
    ELSE "other"

\* a mutant of StepRange: range(1, num_steps)
StepRange_Short == 1..(num_steps - 1)

\* line 101: range(1, num_steps + 1)
StepRange == 1..num_steps

\* a mutant of EndIndex: len(full_path)
EndIndex_Len(path) == Len(path)

\* line 124: len(full_path) - 1
EndIndex(path) == Len(path) - 1

\* a mutant of Interpolate: t = (i - 1) / num_steps
Interpolate_OffByOne(last, c, k) ==
    <<last[1] * (num_steps - (k - 1)) + c[1] * (k - 1),
      last[2] * (num_steps - (k - 1)) + c[2] * (k - 1),
      last[3] * (num_steps - (k - 1)) + c[3] * (k - 1)>>

\* lines 102..107, as numerators over num_steps
Interpolate(last, c, k) ==
    <<last[1] * (num_steps - k) + c[1] * k,
      last[2] * (num_steps - k) + c[2] * k,
      last[3] * (num_steps - k) + c[3] * k>>

\* a mutant of IntermediateType: the segment's own type, whatever came before
IntermediateType_Own(pt, prev) == pt

\* a mutant of IntermediateType: the type of the point before, as it is
IntermediateType_Prev(pt, prev) == prev

\* lines 115..122: the type of an intermediate point
IntermediateType(pt, prev) ==
    IF pt = "x_axis" \/ prev = "x_axis" THEN "x_axis"
    ELSE IF pt = "diagonal" \/ prev = "diagonal" THEN "diagonal"
    ELSE IF pt = "z_axis" \/ prev = "z_axis" THEN "z_axis"
    ELSE "other"

\* ------------------------------------------------------------------ actions

NoExport ==
    /\ mtl = <<>>
    /\ obj = <<>>
    /\ type_to_indices = [t \in Types |-> <<>>]
    /\ vi = 0
    /\ gi = 0

\* no box-pushing simulation is run
NoSimulation ==
    /\ boxes = <<>>
    /\ frontiers = <<>>
    /\ box_counts = <<>>
    /\ frontier_positions = <<>>
    /\ grid = <<>>
    /\ num = 0
    /\ col = 0
    /\ depth = 0

Init ==
    /\ limit \in (2 - LowLimits)..MaxLimit
    /\ pc = "main"
    /\ primes_list = <<>>
    /\ prime_to_index = <<>>
    /\ coordinates = <<>>
    /\ full_path = <<>>
    /\ number_end_indices = <<>>
    /\ point_types = <<>>
    /\ n = 0
    /\ i = 0
    /\ last_point = <<0, 0, 0>>
    /\ factors = <<>>
    /\ coord = <<0, 0, 0>>
    /\ point_type = "origin"
    /\ NoExport
    /\ script = "plottingprime-obj"
    /\ NoSimulation

\* generate_full_path, lines 45..57
GenStart ==
    /\ pc = "main"
    /\ IF get_primes_raises(limit)
       THEN /\ pc' = "error"
            /\ UNCHANGED genVars
       ELSE /\ primes_list' = get_primes(limit)
            /\ prime_to_index' = MakeIndex(primes_list')
            /\ coordinates' = (1 :> <<0, 0, 0>>)
            /\ full_path' = << <<0, 0, 0>> >>
            /\ number_end_indices' = (1 :> 0)
            /\ point_types' = <<"origin">>
            /\ n' = 2
            /\ pc' = "loop"
            /\ UNCHANGED <<i, last_point, factors, coord, point_type>>
    /\ UNCHANGED <<limit, script, simVars, expVars>>

\* the loop body of line 59 up to line 97
ComputeCoord ==
    /\ pc = "loop"
    /\ n <= limit
    /\ LET fs == get_prime_factors(n, primes_list)
       IN  IF lookup_raises(n, fs, prime_to_index)
           THEN /\ pc' = "error"
                /\ factors' = fs
                /\ last_point' = coordinates[n - 1]
                /\ UNCHANGED <<coord, point_type, coordinates, i>>
           ELSE /\ last_point' = coordinates[n - 1]
                /\ factors' = fs
                /\ coord' = Coordinate(n, fs, prime_to_index)
                /\ point_type' = PointType(fs)
                /\ coordinates' = [k \in DOMAIN coordinates \cup {n} |->
                                     IF k = n THEN coord' ELSE coordinates[k]]
                /\ i' = 1
                /\ pc' = "interp"
    /\ UNCHANGED <<limit, script, simVars, primes_list, prime_to_index, full_path,
                   number_end_indices, point_types, n, expVars>>

\* a mutant of InterpStep: the new point and tag replace the last ones
\* (full_path[-1] = ..., point_types[-1] = ...)
InterpStep_InPlace ==
    /\ pc = "interp"
    /\ i \in StepRange
    /\ full_path' = [full_path EXCEPT ![Len(full_path)] =
                                        Interpolate(last_point, coord, i)]
    /\ point_types' = [point_types EXCEPT ![Len(point_types)] = point_type]
    /\ i' = i + 1
    /\ pc' = IF i + 1 \in StepRange THEN "interp" ELSE "endseg"
    /\ UNCHANGED <<limit, script, simVars, primes_list, prime_to_index, coordinates,
                   number_end_indices, n, last_point, factors, coord,
                   point_type, expVars>>

\* one iteration of the loop of line 101 (lines 102..122)
InterpStep ==
    /\ pc = "interp"
    /\ i \in StepRange
    /\ full_path' = Append(full_path, Interpolate(last_point, coord, i))
    /\ point_types' = Append(point_types,
                        IF i = num_steps THEN point_type
                        ELSE IntermediateType(point_type, point_types[Len(point_types)]))
    /\ i' = i + 1
    /\ pc' = IF i + 1 \in StepRange THEN "interp" ELSE "endseg"
    /\ UNCHANGED <<limit, script, simVars, primes_list, prime_to_index, coordinates,
                   number_end_indices, n, last_point, factors, coord,
                   point_type, expVars>>

\* a mutant of RecordEnd: the end index is stored under the key n - 1
RecordEnd_PrevKey ==
    /\ pc = "endseg"
    /\ number_end_indices' = [k \in DOMAIN number_end_indices \cup {n - 1} |->
                                IF k = n - 1 THEN EndIndex(full_path)
                                ELSE number_end_indices[k]]
    /\ n' = n + 1
    /\ pc' = "loop"
    /\ UNCHANGED <<limit, script, simVars, primes_list, prime_to_index, coordinates, full_path,
                   point_types, i, last_point, factors, coord, point_type,
                   expVars>>

\* line 124, and the step of the loop of line 59
RecordEnd ==
    /\ pc = "endseg"
    /\ number_end_indices' = [k \in DOMAIN number_end_indices \cup {n} |->
                                IF k = n THEN EndIndex(full_path)
                                ELSE number_end_indices[k]]
    /\ n' = n + 1
    /\ pc' = "loop"
    /\ UNCHANGED <<limit, script, simVars, primes_list, prime_to_index, coordinates, full_path,
                   point_types, i, last_point, factors, coord, point_type,
                   expVars>>

\* a mutant of GenReturn: the path is handed over before the loop of line 59
\* has ended
GenReturn_Early ==
    /\ pc = "loop"
    /\ pc' = "export"
    /\ UNCHANGED <<limit, script, simVars, genVars, expVars>>

\* line 130 and main, lines 240..244: the path is handed to export_to_obj
GenReturn ==
    /\ pc = "loop"
    /\ n > limit
    /\ pc' = "export"
    /\ UNCHANGED <<limit, script, simVars, genVars, expVars>>

\* ------------------------------------------------------------ export_to_obj

\* one line of the geometry file
Rec(kind, p, t, a, b) == [kind |-> kind, p |-> p, t |-> t, a |-> a, b |-> b]

\* line 194: mtllib <material file>
HeaderRec == Rec("mtllib", <<0, 0, 0>>, "", 0, 0)

\* lines 197 and 204: comment lines
CommentRec == Rec("comment", <<0, 0, 0>>, "", 0, 0)

\* line 199: v x y z
VertexRec(p) == Rec("v", p, "", 0, 0)

\* line 212: usemtl <type>_material
UsemtlRec(t) == Rec("usemtl", <<0, 0, 0>>, t, 0, 0)

\* line 217: l a b
LineRec(a, b) == Rec("l", <<0, 0, 0>>, "", a, b)

\* lines 145..175: one material per type, colours in tenths
Material(t, ka) == [name |-> t, Ka |-> ka, Kd |-> ka, Ks |-> <<10, 10, 10>>, Ns |-> 1000]

mtl_content ==
    << Material("x_axis",   <<10, 0, 0>>),
       Material("diagonal", <<0, 10, 0>>),
       Material("z_axis",   <<0, 0, 10>>),
       Material("other",    <<10, 8, 0>>),
       Material("origin",   <<10, 10, 10>>) >>

\* a mutant of Consecutive: the test of line 216 is lost
Consecutive_All(indices) == [k \in 1..(Len(indices) - 1) |-> k]

\* a mutant of Consecutive: the loop of line 215 starts at 1 (range(1, ...))
Consecutive_SkipFirst(indices) ==
    SelectSeq([k \in 1..(Len(indices) - 2) |-> k + 1],
              LAMBDA k : indices[k] + 1 = indices[k + 1])

\* the 1-based positions k of indices that pass the test of line 216
Consecutive(indices) ==
    SelectSeq([k \in 1..(Len(indices) - 1) |-> k],
              LAMBDA k : indices[k] + 1 = indices[k + 1])

\* lines 215..217: the lines of one group, in the order of the loop
GroupLines(indices) ==
    LET sel == Consecutive(indices)
    IN  [j \in 1..Len(sel) |-> LineRec(indices[sel[j]], indices[sel[j] + 1])]

\* a mutant of GroupBlock: the test of line 208 is lost
GroupBlock_NoSkip(t, indices) == <<UsemtlRec(t)>> \o GroupLines(indices)

\* lines 208..217: what one group adds to the geometry file
GroupBlock(t, indices) ==
    IF indices = <<>> THEN <<>>
    ELSE <<UsemtlRec(t)>> \o GroupLines(indices)

\* a mutant of AddIndex: the index is put in front (indices.insert(0, ...))
AddIndex_Front(groups, t, v) == [groups EXCEPT ![t] = <<v>> \o @]

\* a mutant of AddIndex: the 0-based index is stored (append(i))
AddIndex_ZeroBased(groups, t, v) == [groups EXCEPT ![t] = Append(@, v - 1)]

\* line 202: type_to_indices[point_types[i]].append(i + 1)
AddIndex(groups, t, v) == [groups EXCEPT ![t] = Append(@, v)]

\* lines 178..189: the material file is written, the groups are created
WriteMtl ==
    /\ pc = "export"
    /\ mtl' = mtl_content
    /\ type_to_indices' = [t \in Types |-> <<>>]
    /\ pc' = "open"
    /\ UNCHANGED <<limit, script, simVars, genVars, obj, vi, gi>>

\* lines 192..197: the geometry file is opened and its header written
OpenObj ==
    /\ pc = "open"
    /\ obj' = <<HeaderRec, CommentRec>>
    /\ vi' = 0
    /\ pc' = "vertex"
    /\ UNCHANGED <<limit, script, simVars, genVars, mtl, type_to_indices, gi>>

\* lines 198..202: one iteration of the vertex loop
WriteVertex ==
    /\ pc = "vertex"
    /\ vi < Len(full_path)
    /\ obj' = Append(obj, VertexRec(full_path[vi + 1]))
    /\ type_to_indices' = AddIndex(type_to_indices, point_types[vi + 1], vi + 1)
    /\ vi' = vi + 1
    /\ UNCHANGED <<limit, script, simVars, genVars, mtl, gi, pc>>

\* line 204: the vertex loop is over
EndVertices ==
    /\ pc = "vertex"
    /\ vi >= Len(full_path)
    /\ obj' = Append(obj, CommentRec)
    /\ gi' = 1
    /\ pc' = "group"
    /\ UNCHANGED <<limit, script, simVars, genVars, mtl, type_to_indices, vi>>

\* a mutant of WriteGroup: the groups are visited in an order that is not
\* fixed (from either end of the dictionary)
WriteGroup_AnyOrder ==
    /\ pc = "group"
    /\ gi <= Len(TypeOrder)
    /\ \E g \in {gi, Len(TypeOrder) + 1 - gi} :
          obj' = obj \o GroupBlock(TypeOrder[g], type_to_indices[TypeOrder[g]])
    /\ gi' = gi + 1
    /\ UNCHANGED <<limit, script, simVars, genVars, mtl, type_to_indices, vi, pc>>

\* lines 207..217: one iteration of the loop over the groups
WriteGroup ==
    /\ pc = "group"
    /\ gi <= Len(TypeOrder)
    /\ obj' = obj \o GroupBlock(TypeOrder[gi], type_to_indices[TypeOrder[gi]])
    /\ gi' = gi + 1
    /\ UNCHANGED <<limit, script, simVars, genVars, mtl, type_to_indices, vi, pc>>

\* lines 219..222 and main, line 246
ExportDone ==
    /\ pc = "group"
    /\ gi > Len(TypeOrder)
    /\ pc' = "done"
    /\ UNCHANGED <<limit, script, simVars, genVars, expVars>>

Export ==
    \/ WriteMtl
    \/ OpenObj
    \/ WriteVertex
    \/ EndVertices
    \/ WriteGroup
    \/ ExportDone

Next ==
    \/ GenStart
    \/ ComputeCoord
    \/ InterpStep
    \/ RecordEnd
    \/ GenReturn
    \/ WriteMtl
    \/ OpenObj
    \/ WriteVertex
    \/ EndVertices
    \/ WriteGroup
    \/ ExportDone

Spec == Init /\ [][Next]_vars

\* ---------------------------------------- export_to_obj on given tag streams

RECURSIVE SeqsUpTo(_, _)
\* all sequences over S of length at most k
SeqsUpTo(S, k) ==
    IF k = 0 THEN {<<>>}
    ELSE LET shorter == SeqsUpTo(S, k - 1)
         IN  shorter \cup {Append(s, x) : s \in shorter, x \in S}

\* export_to_obj called with a path and a tag stream of the caller's choice
InitExport ==
    /\ point_types \in SeqsUpTo(Types, MaxStream)
    /\ full_path = [k \in 1..Len(point_types) |-> <<k - 1, 0, 0>>]
    /\ pc = "export"
    /\ limit = 0
    /\ primes_list = <<>>
    /\ prime_to_index = <<>>
    /\ coordinates = <<>>
    /\ number_end_indices = <<>>
    /\ n = 0
    /\ i = 0
    /\ last_point = <<0, 0, 0>>
    /\ factors = <<>>
    /\ coord = <<0, 0, 0>>
    /\ point_type = "origin"
    /\ NoExport
    /\ script = "plottingprime-obj"
    /\ NoSimulation

SpecExport == InitExport /\ [][Export]_vars

\* ------------------- the coordinate step (lines 65..95) on a given rank table

\* the loop body's factorization and coordinate step for an integer n, with
\* the prime list and rank table of a sieve limit that may be smaller than n
InitMap ==
    /\ limit \in 1..MaxSieve
    /\ n \in 2..MaxLimit
    /\ pc = "map"
    /\ primes_list = get_primes(limit)
    /\ prime_to_index = MakeIndex(primes_list)
    /\ coordinates = <<>>
    /\ full_path = <<>>
    /\ number_end_indices = <<>>
    /\ point_types = <<>>
    /\ i = 0
    /\ last_point = <<0, 0, 0>>
    /\ factors = <<>>
    /\ coord = <<0, 0, 0>>
    /\ point_type = "origin"
    /\ NoExport
    /\ script = "plottingprime-obj"
    /\ NoSimulation

\* lines 65..95: factors, then coord and point_type, or a KeyError
MapStep ==
    /\ pc = "map"
    /\ factors' = get_prime_factors(n, primes_list)
    /\ IF lookup_raises(n, factors', prime_to_index)
       THEN /\ pc' = "error"
            /\ UNCHANGED <<coord, point_type>>
       ELSE /\ coord' = Coordinate(n, factors', prime_to_index)
            /\ point_type' = PointType(factors')
            /\ pc' = "mapped"
    /\ UNCHANGED <<limit, script, simVars, primes_list, prime_to_index, coordinates, full_path,
                   number_end_indices, point_types, n, i, last_point, expVars>>

SpecMap == InitMap /\ [][MapStep]_vars

\* ------------------------------------------------- reference definitions
\* (number theory stated directly, independent of the program's algorithms)

IsPrime(p) == p >= 2 /\ \A d \in 2..(p - 1) : p % d # 0

\* 1-based position of the prime p among the primes in ascending order
RefRank == [p \in 1..MaxLimit |-> Cardinality({q \in 2..p : IsPrime(q)})]

\* the smallest divisor of m above 1 (a prime)
SmallestDivisor(m) ==
    CHOOSE d \in 2..m : m % d = 0 /\ \A e \in 2..(d - 1) : m % e # 0

RECURSIVE RefFactorsAsc(_)
RefFactorsAsc(m) ==
    IF m <= 1 THEN <<>>
    ELSE <<SmallestDivisor(m)>> \o RefFactorsAsc(m \div SmallestDivisor(m))

Reverse(s) == [k \in 1..Len(s) |-> s[Len(s) + 1 - k]]

\* the prime factors of m with multiplicity, largest first
RefFactors == [m \in 1..MaxLimit |-> Reverse(RefFactorsAsc(m))]

RECURSIVE SumRanks(_, _)
\* the sum of the ranks of the factors of f at the 0-based positions S
SumRanks(f, S) ==
    IF S = {} THEN 0
    ELSE LET k == CHOOSE k \in S : TRUE
         IN  RefRank[f[k + 1]] + SumRanks(f, S \ {k})

\* the positions of f, from position `from` on, that fall on the axis (0, 1, 2)
OnAxis(f, from, axis) == {k \in from..(Len(f) - 1) : k % 3 = axis}

\* the coordinate of m: the rank of its k-th factor goes onto axis k mod 3
RefCoord ==
    [m \in 1..MaxLimit |->
        <<SumRanks(RefFactors[m], OnAxis(RefFactors[m], 0, 0)),
          SumRanks(RefFactors[m], OnAxis(RefFactors[m], 0, 1)),
          SumRanks(RefFactors[m], OnAxis(RefFactors[m], 0, 2))>>]

\* the category of m
RefTag ==
    [m \in 1..MaxLimit |->
        IF m = 1 THEN "origin"
        ELSE IF IsPrime(m) THEN "x_axis"
        ELSE IF \E p \in 2..m : IsPrime(p) /\ p * p = m THEN "diagonal"
        ELSE IF \E p \in 2..m : IsPrime(p) /\ p * p * p = m THEN "z_axis"
        ELSE "other"]

\* the precedence x_axis > diagonal > z_axis > other; origin is not ranked
Prec(t) ==
    CASE t = "x_axis" -> 4
      [] t = "diagonal" -> 3
      [] t = "z_axis" -> 2
      [] t = "other" -> 1
      [] OTHER -> 0

Higher(a, b) == IF Prec(a) >= Prec(b) THEN a ELSE b

\* a triple of integers as a path point (numerators over num_steps)
Scaled(c) == <<c[1] * num_steps, c[2] * num_steps, c[3] * num_steps>>

\* generate_full_path has returned its path to main
PathFinished == pc = "export"

\* the path point and the tag at 0-based path index j
PointAt(j) == full_path[j + 1]

TagAt(j) == point_types[j + 1]

\* ------------------------------------------------------------------ claims

\* C1: after the Path Builder has processed the integers 2..m the path holds
\* exactly 1 + (m-1)*K points, the finished path holds 1 + (L-1)*K points,
\* and the tag list is as long as the path after every step.
C1_PathLength ==
    /\ pc \notin {"main", "error"} => Len(point_types) = Len(full_path)
    /\ pc = "loop" => Len(full_path) = 1 + (n - 2) * num_steps
    /\ pc = "interp" => Len(full_path) = 1 + (n - 2) * num_steps + (i - 1)
    /\ pc = "endseg" => Len(full_path) = 1 + (n - 1) * num_steps
    /\ (PathFinished /\ limit >= 2) => Len(full_path) = 1 + (limit - 1) * num_steps

C1_Witness ==
    /\ PathFinished
    /\ limit >= 10
    /\ Len(full_path) = 1 + (limit - 1) * num_steps
    /\ Len(point_types) = Len(full_path)

\* C2: SegmentIndex (number_end_indices) is strictly increasing over 1..L,
\* SegmentIndex[m] is the index of the last point appended for m, and
\* SegmentIndex[L] is the path length minus one.
C2_SegmentIndex ==
    /\ pc \notin {"main", "error"} =>
          \A a \in DOMAIN number_end_indices :
              (a + 1) \in DOMAIN number_end_indices =>
                  number_end_indices[a] < number_end_indices[a + 1]
    /\ (pc = "loop" /\ n > 2) =>
          /\ DOMAIN number_end_indices = 1..(n - 1)
          /\ number_end_indices[n - 1] = Len(full_path) - 1
    /\ (PathFinished /\ limit >= 2) =>
          /\ DOMAIN number_end_indices = 1..limit
          /\ number_end_indices[limit] = Len(full_path) - 1

C2_Witness ==
    /\ PathFinished
    /\ limit >= 10
    /\ number_end_indices[limit] = Len(full_path) - 1
    /\ number_end_indices[9] < number_end_indices[10]

\* C3: for every prime p <= L the boundary point of p has tag x_axis and
\* coordinate (rank(p), 0, 0).
C3_PrimeOnXAxis ==
    (PathFinished /\ limit >= 2) =>
        \A p \in 2..limit :
            IsPrime(p) =>
                /\ TagAt(number_end_indices[p]) = "x_axis"
                /\ PointAt(number_end_indices[p]) = Scaled(<<RefRank[p], 0, 0>>)

C3_Witness ==
    /\ PathFinished
    /\ limit >= 13
    /\ TagAt(number_end_indices[13]) = "x_axis"
    /\ PointAt(number_end_indices[13]) = Scaled(<<6, 0, 0>>)

\* C4: for every prime p with p*p <= L the boundary point of p*p has tag
\* diagonal and coordinate (rank(p), rank(p), 0).
C4_SquareOnDiagonal ==
    (PathFinished /\ limit >= 2) =>
        \A p \in 2..limit :
            (IsPrime(p) /\ p * p <= limit) =>
                /\ TagAt(number_end_indices[p * p]) = "diagonal"
                /\ PointAt(number_end_indices[p * p]) =
                       Scaled(<<RefRank[p], RefRank[p], 0>>)

C4_Witness ==
    /\ PathFinished
    /\ limit >= 25
    /\ TagAt(number_end_indices[25]) = "diagonal"
    /\ PointAt(number_end_indices[25]) = Scaled(<<3, 3, 0>>)

\* C5: for every prime p with p*p*p <= L the boundary point of p*p*p has tag
\* z_axis and coordinate (rank(p), rank(p), rank(p)).
C5_CubeOnZAxis ==
    (PathFinished /\ limit >= 2) =>
        \A p \in 2..limit :
            (IsPrime(p) /\ p * p * p <= limit) =>
                /\ TagAt(number_end_indices[p * p * p]) = "z_axis"
                /\ PointAt(number_end_indices[p * p * p]) =
                       Scaled(<<RefRank[p], RefRank[p], RefRank[p]>>)

C5_Witness ==
    /\ PathFinished
    /\ limit >= 27
    /\ TagAt(number_end_indices[27]) = "z_axis"
    /\ PointAt(number_end_indices[27]) = Scaled(<<2, 2, 2>>)

\* C6: for every m <= L with more than three prime factors f[0..k-1]
\* (descending), the coordinate is (rank f[0], rank f[1], rank f[2]) plus,
\* for each position i >= 3, rank f[i] added onto axis i mod 3; so x + y + z
\* is the sum of the ranks of all factors.
C6_Fold ==
    (PathFinished /\ limit >= 2) =>
        \A m \in 2..limit :
            Len(RefFactors[m]) > 3 =>
                LET f == RefFactors[m]
                    c == coordinates[m]
                IN  /\ c[1] = RefRank[f[1]] + SumRanks(f, OnAxis(f, 3, 0))
                    /\ c[2] = RefRank[f[2]] + SumRanks(f, OnAxis(f, 3, 1))
                    /\ c[3] = RefRank[f[3]] + SumRanks(f, OnAxis(f, 3, 2))
                    /\ c[1] + c[2] + c[3] = SumRanks(f, 0..(Len(f) - 1))
                    /\ PointAt(number_end_indices[m]) = Scaled(c)

C6_Witness ==
    /\ PathFinished
    /\ limit >= 64
    /\ factors = <<2, 2, 2, 2, 2, 2>>
    /\ coordinates[64] = <<2, 2, 2>>
    /\ coordinates[48] = <<3, 2, 1>>
    /\ coordinates[54] = <<3, 2, 2>>

\* C7: the Classifier is total and exclusive on 1..L: 1 is tagged origin and
\* every m in 2..L that is not a prime, the square of a prime or the cube of
\* a prime has the boundary tag other (and only those have it).
C7_Classifier ==
    PathFinished =>
        /\ TagAt(0) = "origin"
        /\ number_end_indices[1] = 0
        /\ \A m \in 2..limit :
              LET t == TagAt(number_end_indices[m])
              IN  /\ t \in {"x_axis", "diagonal", "z_axis", "other"}
                  /\ t = "other" <=>
                        ~(\/ IsPrime(m)
                          \/ \E p \in 2..m : IsPrime(p) /\ p * p = m
                          \/ \E p \in 2..m : IsPrime(p) /\ p * p * p = m)

C7_Witness ==
    /\ PathFinished
    /\ limit >= 30
    /\ TagAt(number_end_indices[6]) = "other"
    /\ TagAt(number_end_indices[12]) = "other"
    /\ TagAt(number_end_indices[16]) = "other"
    /\ TagAt(number_end_indices[30]) = "other"
    /\ TagAt(number_end_indices[27]) # "other"

\* C8: every interpolated point between m-1 and m carries m's tag, except
\* that when the tag of the path point just before it differs it carries
\* the one of the two tags that is higher in x_axis > diagonal > z_axis >
\* other.
C8_InterpolatedTag ==
    (PathFinished /\ limit >= 2) =>
        \A j \in 1..(Len(full_path) - 1) :
            j % num_steps # 0 =>
                LET own == RefTag[((j - 1) \div num_steps) + 2]
                    prev == TagAt(j - 1)
                IN  TagAt(j) = IF prev = own THEN own ELSE Higher(own, prev)

C8_Witness ==
    /\ PathFinished
    /\ limit >= 28
    /\ RefTag[4] = "diagonal" /\ TagAt(21) = "x_axis" /\ TagAt(29) = "x_axis"
    /\ RefTag[5] = "x_axis" /\ TagAt(30) = "diagonal" /\ TagAt(31) = "x_axis"
    /\ RefTag[28] = "other" /\ TagAt(261) = "z_axis"
    /\ RefTag[15] = "other" /\ TagAt(131) = "other"

\* C9: for every m in 2..L and k in 1..K the k-th point appended for m is,
\* on each axis, C(m-1)*(1 - k/K) + C(m)*(k/K); the K-th point is C(m)
\* exactly and carries the Classifier tag of m.
C9_Interpolation ==
    (PathFinished /\ limit >= 2) =>
        \A m \in 2..limit :
            /\ \A k \in 1..num_steps :
                  LET q == PointAt((m - 2) * num_steps + k)
                      a == RefCoord[m - 1]
                      b == RefCoord[m]
                  IN  \A x \in 1..3 : q[x] = a[x] * (num_steps - k) + b[x] * k
            /\ PointAt(number_end_indices[m]) = Scaled(RefCoord[m])
            /\ TagAt(number_end_indices[m]) = RefTag[m]
            /\ coordinates[m] = RefCoord[m]

C9_Witness ==
    /\ PathFinished
    /\ limit >= 4
    /\ coordinates[3] = <<2, 0, 0>>
    /\ coordinates[4] = <<1, 1, 0>>
    /\ PointAt(23) = <<17, 3, 0>>
    /\ PointAt(30) = <<10, 10, 0>>

\* the type of the block that line j of the geometry file is written in:
\* the type named by the last usemtl line before it ("" when there is none)
BlockOf(j) ==
    LET us == {k \in 1..j : obj[k].kind = "usemtl"}
    IN  IF us = {} THEN ""
        ELSE obj[CHOOSE k \in us : \A k2 \in us : k2 <= k].t

\* the edges (pairs of 0-based path indices) written in the block of type t
EdgesOf(t) ==
    {<<obj[j].a - 1, obj[j].b - 1>> :
        j \in {k \in 1..Len(obj) : obj[k].kind = "l" /\ BlockOf(k) = t}}

\* C10: every emitted edge joins path indices j and j+1 whose tags are both
\* the tag of the block the edge is written in; for the tag stream
\* [x_axis, x_axis, other, x_axis] the only x_axis edge is 0-1.
C10_EdgesConsecutive ==
    /\ \A t \in Types :
          \A e \in EdgesOf(t) :
              /\ e[1] \in 0..(Len(point_types) - 2)
              /\ e[2] = e[1] + 1
              /\ TagAt(e[1]) = t
              /\ TagAt(e[2]) = t
    /\ \A j \in 1..Len(obj) : obj[j].kind = "l" => BlockOf(j) \in Types
    /\ (pc = "done" /\ point_types = <<"x_axis", "x_axis", "other", "x_axis">>) =>
          EdgesOf("x_axis") = {<<0, 1>>}

C10_Witness ==
    /\ pc = "done"
    /\ point_types = <<"x_axis", "x_axis", "other", "x_axis">>
    /\ EdgesOf("x_axis") = {<<0, 1>>}
    /\ EdgesOf("other") = {}
    /\ <<1, 3>> \notin EdgesOf("x_axis")

\* the vertex loop of export_to_obj has handled the first vi path points
Grouping == pc \in {"vertex", "group", "done"}

\* the kinds of connectivity records of the geometry file
IsConnectivity(r) == r.kind \in {"usemtl", "l"}

\* the types named by the usemtl lines of the geometry file, in file order
BlockTypes ==
    LET us == SelectSeq(obj, LAMBDA r : r.kind = "usemtl")
    IN  [k \in 1..Len(us) |-> us[k].t]

\* the 1-based position of type t in x_axis, diagonal, z_axis, other, origin
GroupRank(t) ==
    CASE t = "x_axis" -> 1
      [] t = "diagonal" -> 2
      [] t = "z_axis" -> 3
      [] t = "other" -> 4
      [] t = "origin" -> 5

\* C11: the Exporter partitions the path indices into the groups x_axis,
\* diagonal, z_axis, other, origin (processed in that order): every path
\* index is in exactly one group, the group of its tag, and each group is in
\* strictly ascending path order.
C11_Partition ==
    /\ Grouping =>
          /\ DOMAIN type_to_indices =
                 {"x_axis", "diagonal", "z_axis", "other", "origin"}
          /\ \A t \in DOMAIN type_to_indices :
                LET g == type_to_indices[t]
                IN  /\ \A k \in 1..(Len(g) - 1) : g[k] < g[k + 1]
                    /\ {g[k] : k \in 1..Len(g)} =
                           {v \in 1..vi : point_types[v] = t}
          /\ \A v \in 1..vi :
                Cardinality({t \in DOMAIN type_to_indices :
                    \E k \in 1..Len(type_to_indices[t]) :
                        type_to_indices[t][k] = v}) = 1
    /\ pc \in {"group", "done"} =>
          /\ vi = Len(full_path)
          /\ \A k \in 1..(Len(BlockTypes) - 1) :
                GroupRank(BlockTypes[k]) < GroupRank(BlockTypes[k + 1])
          /\ \A k \in 1..Len(BlockTypes) : GroupRank(BlockTypes[k]) < gi

C11_Witness ==
    /\ pc = "done"
    /\ point_types = <<"other", "x_axis", "other", "x_axis">>
    /\ type_to_indices["x_axis"] = <<2, 4>>
    /\ type_to_indices["other"] = <<1, 3>>
    /\ type_to_indices["origin"] = <<>>
    /\ BlockTypes = <<"x_axis", "other">>

\* the vertex records of the geometry file, in file order
VertexRecords == SelectSeq(obj, LAMBDA r : r.kind = "v")

\* C12: the geometry file holds first the header line, then exactly one
\* vertex record per path point in path order (the k-th vertex record is
\* path point k-1), then the connectivity blocks; no vertex record follows a
\* connectivity record and every edge refers to vertex numbers in
\* 1..path length.
C12_FileOrder ==
    obj # <<>> =>
        /\ obj[1].kind = "mtllib"
        /\ \A j \in 2..Len(obj) : obj[j].kind # "mtllib"
        /\ Len(VertexRecords) = vi
        /\ \A k \in 1..Len(VertexRecords) : VertexRecords[k].p = PointAt(k - 1)
        /\ pc \in {"group", "done"} => Len(VertexRecords) = Len(full_path)
        /\ \A j \in 1..Len(obj) :
              obj[j].kind = "v" =>
                  \A k \in 1..(j - 1) : ~IsConnectivity(obj[k])
        /\ \A j \in 1..Len(obj) :
              obj[j].kind = "l" =>
                  /\ obj[j].a \in 1..Len(full_path)
                  /\ obj[j].b \in 1..Len(full_path)
                  /\ \E k \in 1..(j - 1) : obj[k].kind = "usemtl"

C12_Witness ==
    /\ pc = "done"
    /\ point_types = <<"x_axis", "x_axis", "other">>
    /\ obj = <<HeaderRec, CommentRec,
               VertexRec(<<0, 0, 0>>), VertexRec(<<1, 0, 0>>), VertexRec(<<2, 0, 0>>),
               CommentRec,
               UsemtlRec("x_axis"), LineRec(1, 2), UsemtlRec("other")>>

\* the number of connectivity blocks of type t in the geometry file
BlockCount(t) == Len(SelectSeq(BlockTypes, LAMBDA u : u = t))

\* C13 as stated: for every limit L >= 2 the geometry file contains exactly
\* one connectivity block for each of the five tag groups.
C13_OneBlockPerGroup ==
    (pc = "done" /\ limit >= 2) =>
        \A t \in {"x_axis", "diagonal", "z_axis", "other", "origin"} :
            BlockCount(t) = 1

\* C13, amended: for every limit L >= 2 the geometry file contains exactly
\* one connectivity block for each tag group that holds at least one path
\* point and none for an empty group; all five groups have a block exactly
\* when L >= 8.
C13_OneBlockPerNonEmptyGroup ==
    (pc = "done" /\ limit >= 2) =>
        /\ \A t \in {"x_axis", "diagonal", "z_axis", "other", "origin"} :
              BlockCount(t) =
                  IF \E v \in 1..Len(point_types) : point_types[v] = t
                  THEN 1 ELSE 0
        /\ Len(BlockTypes) = 5 <=> limit >= 8

C13_Witness ==
    /\ pc = "done"
    /\ limit = 5
    /\ BlockTypes = <<"x_axis", "diagonal", "origin">>
    /\ BlockCount("z_axis") = 0

\* C14: in every state of path construction and in the finished path,
\* index 0 of the path is (0,0,0) with tag origin and SegmentIndex[1] = 0.
C14_OriginFirst ==
    pc \notin {"main", "error"} =>
        /\ PointAt(0) = <<0, 0, 0>>
        /\ TagAt(0) = "origin"
        /\ 1 \in DOMAIN number_end_indices
        /\ number_end_indices[1] = 0
        /\ coordinates[1] = <<0, 0, 0>>

C14_Witness ==
    /\ pc = "done"
    /\ limit >= 10
    /\ Len(full_path) > 1
    /\ PointAt(0) = <<0, 0, 0>>
    /\ TagAt(0) = "origin"
    /\ number_end_indices[1] = 0
    /\ number_end_indices[2] = num_steps

\* the worked example for L = 10: integer -> coordinate and tag
Example ==
    [m \in 2..10 |->
        CASE m = 2 -> [c |-> <<1, 0, 0>>, t |-> "x_axis"]
          [] m = 3 -> [c |-> <<2, 0, 0>>, t |-> "x_axis"]
          [] m = 4 -> [c |-> <<1, 1, 0>>, t |-> "diagonal"]
          [] m = 5 -> [c |-> <<3, 0, 0>>, t |-> "x_axis"]
          [] m = 6 -> [c |-> <<2, 1, 0>>, t |-> "other"]
          [] m = 7 -> [c |-> <<4, 0, 0>>, t |-> "x_axis"]
          [] m = 8 -> [c |-> <<1, 1, 1>>, t |-> "z_axis"]
          [] m = 9 -> [c |-> <<2, 2, 0>>, t |-> "diagonal"]
          [] m = 10 -> [c |-> <<3, 1, 0>>, t |-> "other"]]

\* the ranks of the worked example: 2->1, 3->2, 5->3, 7->4
ExampleRanks ==
    /\ DOMAIN prime_to_index = {2, 3, 5, 7}
    /\ prime_to_index[2] = 1
    /\ prime_to_index[3] = 2
    /\ prime_to_index[5] = 3
    /\ prime_to_index[7] = 4

RECURSIVE Product(_)
Product(s) == IF s = <<>> THEN 1 ELSE Head(s) * Product(Tail(s))

\* get_prime_factors(n, primes_list) has returned into factors
Factorized == pc \in {"interp", "endseg"}

\* C16: for every L and every m in 2..L the Factorizer, run against the
\* PrimeTable of L, returns a list whose product is m, whose elements are
\* primes with a rank in the PrimeTable, in non-increasing order; so the
\* rank lookup never fails.
C16_Factorizer ==
    /\ Factorized =>
          /\ Product(factors) = n
          /\ \A k \in 1..Len(factors) :
                /\ IsPrime(factors[k])
                /\ factors[k] \in DOMAIN prime_to_index
          /\ \A k \in 1..(Len(factors) - 1) : factors[k] >= factors[k + 1]
          /\ factors = RefFactors[n]
    /\ limit >= 2 => pc # "error"

C16_Witness ==
    /\ pc = "interp"
    /\ limit >= 62
    /\ n = 62
    /\ factors = <<31, 2>>
    /\ coordinates[60] = <<4, 2, 1>>

\* the primes up to L
RefPrimes == [L \in 1..MaxLimit |-> {p \in 2..L : IsPrime(p)}]

\* C17: for every L >= 2 the Prime Sieve returns exactly the primes p with
\* 2 <= p <= L, each once, in ascending order, and the rank lookup maps the
\* k-th prime of the list (1-based) to k, so rank(2) = 1.
C17_Sieve ==
    (pc \notin {"main", "error"} /\ limit >= 2) =>
        /\ \A k \in 1..(Len(primes_list) - 1) : primes_list[k] < primes_list[k + 1]
        /\ {primes_list[k] : k \in 1..Len(primes_list)} = RefPrimes[limit]
        /\ Len(primes_list) = Cardinality(RefPrimes[limit])
        /\ DOMAIN prime_to_index = RefPrimes[limit]
        /\ \A k \in 1..Len(primes_list) : prime_to_index[primes_list[k]] = k
        /\ prime_to_index[2] = 1

C17_Witness ==
    /\ pc = "loop"
    /\ n = 2
    /\ limit = 30
    /\ primes_list = <<2, 3, 5, 7, 11, 13, 17, 19, 23, 29>>
    /\ prime_to_index[29] = 10

\* C18 as stated: for every limit L < 2 the core returns an empty result:
\* no path is built, no geometry or material file is exported, and the run
\* does not abort with an exception.
C18_InvalidLimitEmpty ==
    limit < 2 =>
        /\ pc # "error"
        /\ full_path = <<>>
        /\ mtl = <<>>
        /\ obj = <<>>

\* C19 as stated: for every limit L < 2 the Prime Sieve returns an empty
\* prime list and raises no error.
C19_SieveBelowTwo ==
    limit < 2 =>
        /\ pc # "error"
        /\ primes_list = <<>>

BoundaryOfLimitAppended ==
    /\ limit \in DOMAIN number_end_indices
    /\ number_end_indices[limit] = Len(full_path) - 1
    /\ Len(point_types) = Len(full_path)

\* something has been written to the material file or the geometry file
SomethingWritten == mtl # <<>> \/ obj # <<>>

\* C21: nothing is written to the material file or the geometry file before
\* the Path Builder has appended the boundary point of the limit, and a run
\* whose sieve or path construction failed has written nothing at all
C21_NoEarlyWrite ==
    /\ SomethingWritten => BoundaryOfLimitAppended /\ pc # "error"
    /\ pc \in {"main", "loop", "interp", "endseg", "error"} => ~SomethingWritten

\* a run of several integers has written both files to the end
C21_Witness ==
    /\ pc = "done"
    /\ limit >= 4
    /\ mtl = mtl_content
    /\ Len(obj) > Len(full_path)
    /\ BoundaryOfLimitAppended

\* ------------------------------------------------------------------ C22

\* s is an initial part of t
IsPrefix(s, t) ==
    /\ Len(s) <= Len(t)
    /\ \A k \in 1..Len(s) : s[k] = t[k]

\* every entry of the dictionary d is an entry of e
Keeps(d, e) ==
    /\ DOMAIN d \subseteq DOMAIN e
    /\ \A k \in DOMAIN d : d[k] = e[k]

\* the states of export_to_obj
Exporting == pc \in {"export", "open", "vertex", "group", "done"}

\* C22: every step of path construction only appends (the points, tags and
\* end indices written earlier are unchanged by every later step), and no
\* step of the Exporter changes the path or the tag list
C22_AppendOnly ==
    [][/\ IsPrefix(full_path, full_path')
       /\ IsPrefix(point_types, point_types')
       /\ Keeps(number_end_indices, number_end_indices')
       /\ Exporting => /\ full_path' = full_path
                       /\ point_types' = point_types
                       /\ number_end_indices' = number_end_indices]_vars

\* a run of ten integers or more has built its path and exported it
C22_Witness ==
    /\ pc = "done"
    /\ limit >= 10
    /\ Len(full_path) = 1 + num_steps * (limit - 1)
    /\ Len(point_types) = Len(full_path)
    /\ Len(obj) > Len(full_path)

\* ------------------------------------------------------------------ C23

\* the integer whose segment holds the 0-based path index j >= 1, and the
\* step of j within that segment
SegmentOf(j) == ((j - 1) \div num_steps) + 2

StepOf(j) == j - num_steps * (SegmentOf(j) - 2)

\* the path point at the 0-based index j as a function of j alone
RefPoint(j) ==
    IF j = 0 THEN <<0, 0, 0>>
    ELSE LET a == RefCoord[SegmentOf(j) - 1]
             b == RefCoord[SegmentOf(j)]
             k == StepOf(j)
         IN  <<a[1] * (num_steps - k) + b[1] * k,
               a[2] * (num_steps - k) + b[2] * k,
               a[3] * (num_steps - k) + b[3] * k>>

\* the tag at the 0-based index j as a function of j alone
RefPointTag(j) ==
    IF j = 0 THEN "origin"
    ELSE IF StepOf(j) = num_steps THEN RefTag[SegmentOf(j)]
    ELSE Higher(RefTag[SegmentOf(j)], RefTag[SegmentOf(j) - 1])

\* the outputs of a run as functions of its limit L >= 1 alone
RunPath(L) == [j \in 1..(1 + num_steps * (L - 1)) |-> RefPoint(j - 1)]

RunTags(L) == [j \in 1..(1 + num_steps * (L - 1)) |-> RefPointTag(j - 1)]

RunEndIndices(L) == [m \in 1..L |-> num_steps * (m - 1)]

\* the block of the tag t: the edges a -- a+1 (1-based) with both ends
\* tagged t, ascending, after the material selection; nothing for no vertex
RunBlock(L, t) ==
    LET tags == RunTags(L)
        ends == SelectSeq([a \in 1..(Len(tags) - 1) |-> a],
                          LAMBDA a : tags[a] = t /\ tags[a + 1] = t)
    IN  IF \A a \in 1..Len(tags) : tags[a] # t THEN <<>>
        ELSE <<UsemtlRec(t)>> \o [e \in 1..Len(ends) |-> LineRec(ends[e], ends[e] + 1)]

RunObj(L) ==
    <<HeaderRec, CommentRec>>
    \o [j \in 1..(1 + num_steps * (L - 1)) |-> VertexRec(RefPoint(j - 1))]
    \o <<CommentRec>>
    \o RunBlock(L, TypeOrder[1]) \o RunBlock(L, TypeOrder[2])
    \o RunBlock(L, TypeOrder[3]) \o RunBlock(L, TypeOrder[4])
    \o RunBlock(L, TypeOrder[5])

\* C23: the pipeline is deterministic: what a run computes is fixed by its
\* limit alone (the step count is the constant num_steps), so two runs with
\* the same limit have the same factor list and coordinate for every n, the
\* same path, tags and end indices, and the same vertex records, blocks and
\* edges in the same order
C23_Deterministic ==
    /\ pc \in {"interp", "endseg"} =>
          /\ factors = RefFactors[n]
          /\ coord = RefCoord[n]
          /\ point_type = RefTag[n]
    /\ pc = "done" =>
          /\ full_path = RunPath(limit)
          /\ point_types = RunTags(limit)
          /\ number_end_indices = RunEndIndices(limit)
          /\ mtl = mtl_content
          /\ obj = RunObj(limit)

\* a finished run whose geometry file has blocks of all five tags
C23_Witness ==
    /\ pc = "done"
    /\ limit >= 12
    /\ obj = RunObj(limit)
    /\ \A t \in Types : \E k \in 1..Len(obj) : obj[k] = UsemtlRec(t)

\* ------------------------------------------------------------------ C24

\* generate_full_path(MaxLimit), the run with the largest limit: its prime
\* list and index (lines 45..51), its coordinates and types (lines 65..97)
LongPrimes == get_primes(MaxLimit)

LongIndex == MakeIndex(LongPrimes)

LongCoord ==
    [m \in 1..MaxLimit |->
        IF m = 1 THEN <<0, 0, 0>>
        ELSE Coordinate(m, get_prime_factors(m, LongPrimes), LongIndex)]

LongType ==
    [m \in 1..MaxLimit |->
        IF m = 1 THEN "origin"
        ELSE PointType(get_prime_factors(m, LongPrimes))]

\* its path, tag list and end indices (lines 101..124)
LongPath ==
    [j \in 1..(1 + num_steps * (MaxLimit - 1)) |->
        IF j = 1 THEN <<0, 0, 0>>
        ELSE Interpolate(LongCoord[SegmentOf(j - 1) - 1],
                         LongCoord[SegmentOf(j - 1)], StepOf(j - 1))]

LongTags ==
    [j \in 1..(1 + num_steps * (MaxLimit - 1)) |->
        IF j = 1 THEN "origin"
        ELSE IF StepOf(j - 1) = num_steps THEN LongType[SegmentOf(j - 1)]
        ELSE IntermediateType(LongType[SegmentOf(j - 1)],
                              LongType[SegmentOf(j - 1) - 1])]

LongEndIndices == [m \in 1..MaxLimit |-> num_steps * (m - 1)]

\* C24: the coordinate and the boundary tag of n do not depend on the limit:
\* a run with limit L and the run with the largest limit L' >= L agree on
\* them for every n <= L, and the path, the tag list and the end indices
\* built for L are an initial part of those built for L'
C24_LimitIndependent ==
    (PathFinished /\ limit >= 1) =>
        /\ \A m \in 1..limit :
              /\ coordinates[m] = LongCoord[m]
              /\ TagAt(number_end_indices[m]) = LongType[m]
        /\ IsPrefix(full_path, LongPath)
        /\ IsPrefix(point_types, LongTags)
        /\ Keeps(number_end_indices, LongEndIndices)

\* a finished run with a limit below the largest one, whose prime list is
\* shorter than that of the largest run
C24_Witness ==
    /\ PathFinished
    /\ limit = 30
    /\ Len(primes_list) < Len(LongPrimes)
    /\ Len(full_path) < Len(LongPath)
    /\ IsPrefix(full_path, LongPath)

\* ------------------------------------------------------------------ C25

\* the edge lines of the geometry file, in file order
EdgeLines == SelectSeq(obj, LAMBDA r : r.kind = "l")

\* the 0-based path indices j whose point and the next one carry the same tag
EqualPairs == {j \in 0..(Len(point_types) - 2) : TagAt(j) = TagAt(j + 1)}

\* C25: for a path built by the Path Builder the Exporter writes the edge
\* between the path indices j and j+1 exactly once when the two points have
\* the same tag and never when their tags differ: every edge line joins an
\* equal-tag adjacent pair, no edge is written twice (so none is in two
\* blocks), and there are as many edge lines as equal-tag adjacent pairs
C25_EdgePerEqualPair ==
    pc = "done" =>
        LET ls == EdgeLines
            es == {<<ls[k].a - 1, ls[k].b - 1>> : k \in 1..Len(ls)}
        IN  /\ es = {<<j, j + 1>> : j \in EqualPairs}
            /\ Cardinality(es) = Len(ls)
            /\ Len(ls) = Cardinality(EqualPairs)

\* a finished export whose path has equal-tag pairs and changes of tag
C25_Witness ==
    /\ pc = "done"
    /\ limit >= 8
    /\ EqualPairs # {}
    /\ \E j \in 0..(Len(point_types) - 2) : j \notin EqualPairs /\ j >= 1
    /\ Len(EdgeLines) = Cardinality(EqualPairs)

\* ------------------------------------------------------------------ C26

\* the vertex loop of export_to_obj has passed the first vertex
FirstVertexGrouped ==
    \/ pc = "vertex" /\ vi >= 1
    \/ pc \in {"group", "done"}

\* C26: in every state every tag of the tag list is one of the five tags
\* (the keys of the Exporter's groups, so the lookup of line 202 never
\* fails) and origin occurs only at index 0; the origin group is exactly
\* vertex 1, and the origin block has no edges
C26_TagsWellFormed ==
    /\ \A k \in 1..Len(point_types) :
          /\ point_types[k] \in Types
          /\ point_types[k] \in DOMAIN type_to_indices
          /\ point_types[k] = "origin" <=> k = 1
    /\ point_type \in Types
    /\ FirstVertexGrouped => type_to_indices["origin"] = <<1>>
    /\ pc = "done" =>
          /\ \E k \in 1..Len(obj) : obj[k] = UsemtlRec("origin")
          /\ \A k \in 1..Len(obj) :
                obj[k] = UsemtlRec("origin") =>
                    k = Len(obj) \/ obj[k + 1].kind # "l"

\* a finished export of a path of several segments
C26_Witness ==
    /\ pc = "done"
    /\ limit >= 9
    /\ type_to_indices["origin"] = <<1>>
    /\ \A t \in Types : type_to_indices[t] # <<>>
    /\ obj[Len(obj)] = UsemtlRec("origin")

\* ------------------------------------------------------------------ C27

\* the point p = (x, y, z) has x >= y >= z >= 0
Ordered(p) == p[1] >= p[2] /\ p[2] >= p[3] /\ p[3] >= 0

\* C27: every point of the path, boundary or interpolated, has
\* x >= y >= z >= 0, and the boundary point of every n >= 2 has x >= 1
\* (num_steps as a numerator over num_steps), whatever the number of
\* factors of n
C27_OrderedPoints ==
    /\ full_path # <<>> => Ordered(full_path[Len(full_path)])
    /\ pc \in {"interp", "endseg"} => Ordered(coord) /\ coord[1] >= 1
    /\ PathFinished =>
          /\ \A j \in 0..(Len(full_path) - 1) : Ordered(PointAt(j))
          /\ \A m \in 2..limit :
                /\ Ordered(coordinates[m])
                /\ coordinates[m][1] >= 1
                /\ PointAt(number_end_indices[m])[1] >= num_steps

\* a finished path that holds integers of one to six factors, the folded
\* ones among them
C27_Witness ==
    /\ PathFinished
    /\ limit >= 64
    /\ Len(RefFactors[64]) = 6
    /\ coordinates[64] = <<2, 2, 2>>
    /\ coordinates[48] = <<3, 2, 1>>
    /\ \A j \in 0..(Len(full_path) - 1) : Ordered(PointAt(j))

\* ------------------------------------------- the other variants of the script

\* the largest limit the variant scripts are run with
MaxVariantLimit == 32

\* plottingprime-v1.py, plottingprime-v2.py and primework/plottingprime.py
Variants == {"plottingprime-v1", "plottingprime-v2", "primework/plottingprime"}

\* line 80 of plottingprime-v1.py
v1_num_steps == 20

\* line 80 of plottingprime-v2.py
v2_num_steps == 10

\* line 79 of primework/plottingprime.py
primework_num_steps == 10

VariantSteps(s) ==
    CASE s = "plottingprime-v1" -> v1_num_steps
      [] s = "plottingprime-v2" -> v2_num_steps
      [] OTHER -> primework_num_steps

\* get_prime_factors of plottingprime-v1.py (lines 21..33): not sorted
v1_get_prime_factors(m, primes) ==
    LET r == FactorLoop(1, primes, m, <<>>)
    IN  IF r[1] > 1 THEN Append(r[2], r[1]) ELSE r[2]

\* get_prime_factors of plottingprime-v2.py (lines 21..34) and of
\* primework/plottingprime.py (lines 20..33): sorted descending
v2_get_prime_factors(m, primes) ==
    LET r == FactorLoop(1, primes, m, <<>>)
    IN  SortDesc(IF r[1] > 1 THEN Append(r[2], r[1]) ELSE r[2])

\* a mutant of VariantFactors: no script sorts the factors
VariantFactors_Unsorted(s, m, primes) == v1_get_prime_factors(m, primes)

\* the factor list the loop body works with: plottingprime-v1.py sorts it
\* in the caller (line 56), the other two in get_prime_factors
VariantFactors(s, m, primes) ==
    IF s = "plottingprime-v1" THEN SortDesc(v1_get_prime_factors(m, primes))
    ELSE v2_get_prime_factors(m, primes)

\* the coordinate of m (v1 lines 59..75, v2 lines 60..76, primework lines
\* 59..75): one branch per factor count, the fold for more than three
VariantCoordinate(m, fs, idx) ==
    IF Len(fs) = 1 THEN <<idx[m], 0, 0>>
    ELSE IF Len(fs) = 2 THEN <<idx[fs[1]], idx[fs[2]], 0>>
    ELSE IF Len(fs) = 3 THEN <<idx[fs[1]], idx[fs[2]], idx[fs[3]]>>
    ELSE FoldLoop(3, fs, idx,
            <<DictGet(idx, fs[1], 0), DictGet(idx, fs[2], 0), DictGet(idx, fs[3], 0)>>)

\* the interpolated point of step k, as numerators over steps
VariantInterpolate(last, c, k, steps) ==
    <<last[1] * (steps - k) + c[1] * k,
      last[2] * (steps - k) + c[2] * k,
      last[3] * (steps - k) + c[3] * k>>

InitVariants ==
    /\ script \in Variants
    /\ limit \in 1..MaxVariantLimit
    /\ pc = "main"
    /\ primes_list = <<>>
    /\ prime_to_index = <<>>
    /\ coordinates = <<>>
    /\ full_path = <<>>
    /\ number_end_indices = <<>>
    /\ point_types = <<>>
    /\ n = 0
    /\ i = 0
    /\ last_point = <<0, 0, 0>>
    /\ factors = <<>>
    /\ coord = <<0, 0, 0>>
    /\ point_type = "origin"
    /\ NoExport
    /\ NoSimulation

\* the lines before the loop over n; plottingprime-v1.py keeps no
\* number_end_indices
VariantStart ==
    /\ pc = "main"
    /\ primes_list' = get_primes(limit)
    /\ prime_to_index' = MakeIndex(primes_list')
    /\ coordinates' = (1 :> <<0, 0, 0>>)
    /\ full_path' = << <<0, 0, 0>> >>
    /\ number_end_indices' = IF script = "plottingprime-v1" THEN <<>>
                             ELSE (1 :> 0)
    /\ n' = 2
    /\ pc' = "loop"
    /\ UNCHANGED <<limit, script, simVars, expVars, point_types, i,
                   last_point, factors, coord, point_type>>

\* the loop body up to coordinates[n] = coord
VariantCoord ==
    /\ pc = "loop"
    /\ n <= limit
    /\ last_point' = coordinates[n - 1]
    /\ factors' = VariantFactors(script, n, primes_list)
    /\ coord' = VariantCoordinate(n, factors', prime_to_index)
    /\ coordinates' = [k \in DOMAIN coordinates \cup {n} |->
                         IF k = n THEN coord' ELSE coordinates[k]]
    /\ i' = 1
    /\ pc' = "interp"
    /\ UNCHANGED <<limit, script, simVars, expVars, primes_list,
                   prime_to_index, full_path, number_end_indices,
                   point_types, n, point_type>>

\* one iteration of the interpolation loop
VariantInterp ==
    /\ pc = "interp"
    /\ i \in 1..VariantSteps(script)
    /\ full_path' = Append(full_path,
                      VariantInterpolate(last_point, coord, i, VariantSteps(script)))
    /\ i' = i + 1
    /\ pc' = IF i + 1 \in 1..VariantSteps(script) THEN "interp" ELSE "endseg"
    /\ UNCHANGED <<limit, script, simVars, expVars, primes_list,
                   prime_to_index, coordinates, number_end_indices,
                   point_types, n, last_point, factors, coord, point_type>>

\* number_end_indices[n] = len(full_path) - 1 (not in plottingprime-v1.py),
\* and the step of the loop over n
VariantRecordEnd ==
    /\ pc = "endseg"
    /\ number_end_indices' =
          IF script = "plottingprime-v1" THEN number_end_indices
          ELSE [k \in DOMAIN number_end_indices \cup {n} |->
                  IF k = n THEN Len(full_path) - 1 ELSE number_end_indices[k]]
    /\ n' = n + 1
    /\ pc' = "loop"
    /\ UNCHANGED <<limit, script, simVars, expVars, primes_list,
                   prime_to_index, coordinates, full_path, point_types, i,
                   last_point, factors, coord, point_type>>

\* the return statement
VariantReturn ==
    /\ pc = "loop"
    /\ n > limit
    /\ pc' = "returned"
    /\ UNCHANGED <<limit, script, simVars, expVars, genVars>>

NextVariants ==
    \/ VariantStart
    \/ VariantCoord
    \/ VariantInterp
    \/ VariantRecordEnd
    \/ VariantReturn

SpecVariants == InitVariants /\ [][NextVariants]_vars

\* ------------------------------------------------------------------ C28

\* what generate_full_path of plottingprime-obj.py computes for the limit L:
\* the coordinate of every integer, the path and the end indices
ObjCoordinates(L) ==
    LET pl == get_primes(L)
        idx == MakeIndex(pl)
    IN  [m \in 1..L |->
            IF m = 1 THEN <<0, 0, 0>>
            ELSE Coordinate(m, get_prime_factors(m, pl), idx)]

ObjPath(L) ==
    LET c == ObjCoordinates(L)
    IN  [j \in 1..(1 + num_steps * (L - 1)) |->
            IF j = 1 THEN <<0, 0, 0>>
            ELSE Interpolate(c[SegmentOf(j - 1) - 1], c[SegmentOf(j - 1)],
                             StepOf(j - 1))]

ObjEndIndices(L) == [m \in 1..L |-> EndIndex(ObjPath(m))]

\* C28: the script variants agree: for every limit, generate_cumulative_path
\* of v1 and generate_full_path of v2 and of primework/plottingprime.py
\* compute the same coordinate for every integer as generate_full_path of
\* the obj script, and the generate_full_path variants produce the same
\* path and the same number_end_indices
C28_VariantsAgree ==
    pc = "returned" =>
        /\ coordinates = ObjCoordinates(limit)
        /\ script # "plottingprime-v1" =>
              /\ full_path = ObjPath(limit)
              /\ number_end_indices = ObjEndIndices(limit)

\* a variant has returned a path that holds folded integers
C28_Witness ==
    /\ pc = "returned"
    /\ script = "primework/plottingprime"
    /\ limit >= 24
    /\ Len(full_path) = 1 + primework_num_steps * (limit - 1)
    /\ coordinates[24] = <<3, 1, 1>>
    /\ coordinates = ObjCoordinates(limit)

\* ------------------------------------------------ the box-pushing simulations

\* the largest argument n of simulate_prime_collision
MaxN == 16

\* the list variant (primework/triple-1.py, misc/prime-box/misc/
\* primeboxtheory.py) and the grid variant (pusher.py)
ListScripts == {"triple-1", "primeboxtheory"}

GridScripts == {"pusher"}

InitSim ==
    /\ script \in ListScripts \cup GridScripts
    /\ n \in 2..MaxN
    /\ num = 2
    /\ pc = "for"
    /\ boxes = <<>>
    /\ frontiers = <<>>
    /\ box_counts = <<>>
    /\ frontier_positions = <<>>
    /\ grid = IF script \in GridScripts THEN << <<>> >> ELSE <<>>
    /\ col = 0
    /\ depth = 0
    /\ limit = 0
    /\ primes_list = <<>>
    /\ prime_to_index = <<>>
    /\ coordinates = <<>>
    /\ full_path = <<>>
    /\ number_end_indices = <<>>
    /\ point_types = <<>>
    /\ i = 0
    /\ last_point = <<0, 0, 0>>
    /\ factors = <<>>
    /\ coord = <<0, 0, 0>>
    /\ point_type = "origin"
    /\ NoExport

\* the variables of the pipeline, which a simulation leaves alone
pipeVars == <<limit, primes_list, prime_to_index, coordinates, full_path,
              number_end_indices, point_types, i, last_point, factors, coord,
              point_type, expVars>>

\* the occupants of bs before the first empty (zero) box
Pushed(bs) ==
    LET empty == {k \in 1..Len(bs) : bs[k] = 0}
        stop == IF empty = {} THEN Len(bs) + 1
                ELSE CHOOSE k \in empty : \A k2 \in empty : k <= k2
    IN  SubSeq(bs, 1, stop - 1)

\* triple-1.py lines 9..14, primeboxtheory.py lines 10..15: current_boxes
CurrentBoxes(v, bs) == <<v>> \o Pushed(bs)

\* one iteration of the loop over num of the list variant
\* (triple-1.py lines 8..19, primeboxtheory.py lines 8..21)
ListStep ==
    /\ pc = "for"
    /\ script \in ListScripts
    /\ num <= n
    /\ LET current_boxes == CurrentBoxes(num, boxes)
       IN  /\ frontiers' = IF Len(current_boxes) > Len(boxes)
                           THEN Append(frontiers, num) ELSE frontiers
           /\ boxes' = current_boxes
    /\ box_counts' = IF script = "primeboxtheory"
                     THEN Append(box_counts, Len(boxes')) ELSE box_counts
    /\ frontier_positions' = IF script = "triple-1"
                             THEN Append(frontier_positions, <<num, Len(boxes')>>)
                             ELSE frontier_positions
    /\ num' = num + 1
    /\ UNCHANGED <<pc, n, script, grid, col, depth, pipeVars>>

\* the return statement of the list variant
ListReturn ==
    /\ pc = "for"
    /\ script \in ListScripts
    /\ num > n
    /\ pc' = "returned"
    /\ UNCHANGED <<n, script, simVars, pipeVars>>

\* the row with zeros appended until it has more than c cells
\* (while len(row) <= c: row.append(0))
Extend(row, c) ==
    IF Len(row) <= c THEN row \o [k \in 1..(c + 1 - Len(row)) |-> 0] ELSE row

\* the cell at the 0-based row d and column c
Cell(g, d, c) == g[d + 1][c + 1]

\* the grid with the cell at the 0-based row d and column c set to v
SetCell(g, d, c, v) == [g EXCEPT ![d + 1][c + 1] = v]

\* pusher.py lines 25..29: the grid seen at the new depth d, with a new
\* row of zeros when d is past the last row, and row d extended to col c
Deeper(g, d, c) ==
    LET g1 == IF d >= Len(g) THEN Append(g, [k \in 1..Len(g[1]) |-> 0]) ELSE g
    IN  [g1 EXCEPT ![d + 1] = Extend(@, c)]

\* pusher.py lines 7..13: the next num starts at the head of the main line
GridFor ==
    /\ pc = "for"
    /\ script \in GridScripts
    /\ num <= n
    /\ col' = 0
    /\ depth' = 0
    /\ grid' = [grid EXCEPT ![1] = Extend(@, 0)]
    /\ pc' = "place"
    /\ UNCHANGED <<n, script, num, boxes, frontiers, box_counts,
                   frontier_positions, pipeVars>>

\* pusher.py lines 17..22: the spot is empty, num is placed, break
GridPlace ==
    /\ pc = "place"
    /\ Cell(grid, depth, col) = 0
    /\ grid' = SetCell(grid, depth, col, num)
    /\ frontiers' = IF depth = 0 /\ col = Len(grid'[1]) - 1
                    THEN Append(frontiers, num) ELSE frontiers
    /\ num' = num + 1
    /\ pc' = "for"
    /\ UNCHANGED <<n, script, col, depth, boxes, box_counts,
                   frontier_positions, pipeVars>>

\* a mutant of GridPush: the pushed number is copied, its old cell not cleared
GridPush_Copy ==
    /\ pc = "place"
    /\ Cell(grid, depth, col) # 0
    /\ LET g == Deeper(grid, depth + 1, col)
       IN  /\ Cell(g, depth + 1, col) = 0
           /\ grid' = SetCell(g, depth + 1, col, Cell(g, depth, col))
    /\ UNCHANGED <<pc, n, script, num, col, depth, boxes, frontiers,
                   box_counts, frontier_positions, pipeVars>>

\* pusher.py lines 24..35: the spot is taken and the one below is empty:
\* the occupant is pushed down, depth goes down and up again
GridPush ==
    /\ pc = "place"
    /\ Cell(grid, depth, col) # 0
    /\ LET g == Deeper(grid, depth + 1, col)
       IN  /\ Cell(g, depth + 1, col) = 0
           /\ grid' = SetCell(SetCell(g, depth + 1, col, Cell(g, depth, col)),
                              depth, col, 0)
    /\ UNCHANGED <<pc, n, script, num, col, depth, boxes, frontiers,
                   box_counts, frontier_positions, pipeVars>>

\* pusher.py lines 24..29 and 36..43: the spot and the one below are taken:
\* move right, back to the main line, every row extended to the new column
GridRight ==
    /\ pc = "place"
    /\ Cell(grid, depth, col) # 0
    /\ LET g == Deeper(grid, depth + 1, col)
       IN  /\ Cell(g, depth + 1, col) # 0
           /\ grid' = [r \in 1..Len(g) |-> Extend(g[r], col + 1)]
    /\ col' = col + 1
    /\ depth' = 0
    /\ UNCHANGED <<pc, n, script, num, boxes, frontiers, box_counts,
                   frontier_positions, pipeVars>>

\* pusher.py line 45
GridReturn ==
    /\ pc = "for"
    /\ script \in GridScripts
    /\ num > n
    /\ pc' = "returned"
    /\ UNCHANGED <<n, script, simVars, pipeVars>>

NextSim ==
    \/ ListStep
    \/ ListReturn
    \/ GridFor
    \/ GridPlace
    \/ GridPush
    \/ GridRight
    \/ GridReturn

SpecSim == InitSim /\ [][NextSim]_vars

\* the simulation is a sequential program: it always takes its next step
SpecSimFair == SpecSim /\ WF_vars(NextSim)

\* ------------------------------------------------------------------ C29

\* the primes in 2..m in ascending order
PrimesUpTo(m) == SelectSeq([k \in 1..m |-> k], IsPrime)

\* C29: in the list variant and in the grid variant the returned frontiers
\* list is exactly the ascending list of the primes in 2..n
C29_FrontiersArePrimes == pc = "returned" => frontiers = PrimesUpTo(n)

\* ------------------------------------------------------------------ C30

\* the cells (0-based row and column) of the grid that hold the value v
CellsOf(v) ==
    {rc \in (0..(Len(grid) - 1)) \X (0..(Len(grid[1]) - 1)) :
        rc[2] < Len(grid[rc[1] + 1]) /\ Cell(grid, rc[1], rc[2]) = v}

\* every integer inserted so far (2..num-1) is in exactly one cell
Conserved == \A v \in 2..(num - 1) : Cardinality(CellsOf(v)) = 1

\* C30: the grid variant terminates for every n >= 2: the placement loop of
\* each number reaches its break, the function returns, and after each
\* number is placed every integer inserted so far occupies exactly one cell
C30_GridTerminates ==
    /\ [](script \in GridScripts /\ pc \in {"for", "returned"} => Conserved)
    /\ (script \in GridScripts /\ pc = "place") ~> (pc = "for")
    /\ (script \in GridScripts) ~> (pc = "returned")

\* the grid variant has returned after pushes and moves to the right
C30_Witness ==
    /\ pc = "returned"
    /\ script \in GridScripts
    /\ n >= 10
    /\ Len(grid) = 2
    /\ Len(grid[1]) >= 5
    /\ Conserved

====
